---- MODULE Spec2Model ----
(***************************************************************************)
(* A model of the hellochain ledger: Blockchain (src/src/blockchain.rs),   *)
(* Block (src/src/block.rs), Transaction (src/src/transaction.rs) and      *)
(* Wallet (src/src/wallet.rs).                                             *)
(*                                                                         *)
(* Money.  The program keeps amounts as f64.  The model keeps them as      *)
(* integers counted in units of 0.0001 coin, the resolution of the fee     *)
(* schedule, so that 0.001 * amount is amount \div 1000; floating-point    *)
(* rounding is not modelled.                                               *)
(*                                                                         *)
(* Digests.  calculate_hash is SHA-256 rendered as 64 hex characters.  A   *)
(* digest is modelled by the tuple of the fields that were hashed (so two  *)
(* digests are equal exactly when their inputs are: the hash is taken to   *)
(* be collision-free), and the number of leading '0' characters of a block *)
(* digest by a fixed function of those fields (LeadingZeros).  The leaf    *)
(* of the Merkle tree hashes one string, the fields of the transaction     *)
(* written one after the other, and is modelled by that string.            *)
(***************************************************************************)
EXTENDS Integers, Sequences, FiniteSets, TLC

VARIABLES
    chain,                  \* Blockchain.chain: Vec<Block>
    difficulty,             \* Blockchain.difficulty
    pending_transactions,   \* Blockchain.pending_transactions: Vec<Transaction>
    mining_reward,          \* Blockchain.mining_reward
    wallets,                \* Blockchain.wallets: HashMap<String, Wallet>
    consensus_algorithm,    \* Blockchain.consensus_algorithm
    transaction_fees,       \* Blockchain.transaction_fees
    validators,             \* Blockchain.validators: HashMap<String, f64>
    now,                    \* Utc::now().timestamp(), in seconds
    last                    \* the last call: its name, arguments and returned Result

vars == << chain, difficulty, pending_transactions, mining_reward, wallets,
           consensus_algorithm, transaction_fees, validators, now, last >>

-----------------------------------------------------------------------------
(* Bounds of the model *)

MaxChain == 3          \* blocks on the chain, genesis included
MaxLedgerChain == 2    \* the same, in the specification of the ledger
MaxPool == 3           \* entries of the pending pool
MaxFunds == 1          \* |balance|, |staking_balance| <= MaxFunds * FundAmount on funding
MaxTime == 1           \* the clock runs from 0 to MaxTime
MaxDifficulty == 2     \* adjust_difficulty raises difficulty up to this value
TxAmount == 1000       \* the amount of a transfer: 0.1 coin, fee 0.0001

(* Input values *)

REWARD == "BLOCKCHAIN_REWARD"

Addrs == {"alice", "bob"}                \* producers; bob's wallet comes with a credit
Funded == {"alice"}                      \* the wallet that is created, funded and staked

FundAmount == TxAmount + (TxAmount \div 1000)         \* pays exactly one transfer
Rewards == {2 * TxAmount}                             \* Blockchain::new mining_reward
Difficulties == {1}                                   \* Blockchain::new difficulty
Algorithms == {"ProofOfWork", "ProofOfStake", "DelegatedProofOfStake"}

\* the (sender, receiver, amount) given to Transaction::new, the amounts given to
\* add_funds_to_wallet and the stakes given to add_validator: a small set for the
\* specification with a clock, a wide one for the specification of the ledger
TxInputs == { << "alice", "bob", TxAmount >>, << "alice", "bob", 0 >> }
FundAmounts == {FundAmount}
StakeAmounts == {FundAmount}

LedgerTxInputs ==
    { << "alice", "bob", TxAmount >>, << "bob", "alice", TxAmount >>,
      << "alice", REWARD, TxAmount >>, << REWARD, "bob", TxAmount >>,
      << "", "bob", TxAmount >>, << "alice", "", TxAmount >>,
      << "alice", "bob", 0 >>, << "alice", "bob", 0 - TxAmount >>,
      << REWARD, "bob", 0 >> }
LedgerFundAmounts == {0 - FundAmount, FundAmount}
LedgerStakeAmounts == {0 - FundAmount, 0, FundAmount}

\* rng.random::<f64>() in [0,1), counted in units of 1/(1000 * 10000), so that
\* random_value <= stake / 1000.0 is draw <= stake with stake in money units.
DrawScale == 1000 * 10000
Draws == {0, FundAmount, FundAmount + 1}

-----------------------------------------------------------------------------
(* transaction.rs *)

Transfer == [kind |-> "Transfer", code |-> "", data |-> <<>>]

\* the fee match of Transaction::new
Fee(amount, transaction_type) ==
    CASE transaction_type.kind = "Transfer" -> amount \div 1000
      [] transaction_type.kind = "SmartContract" -> (amount \div 100) + 5000
      [] transaction_type.kind = "Data" ->
            (amount \div 200) + Len(transaction_type.data)

\* calculate_hash(format!("{}{}{}{:?}", sender, receiver, amount, timestamp))
TxId(sender, receiver, amount, timestamp) ==
    << "tx", sender, receiver, amount, timestamp >>

TransactionNew(sender, receiver, amount, transaction_type, t) ==
    [ id |-> TxId(sender, receiver, amount, t),
      transaction_type |-> transaction_type,
      sender |-> sender,
      receiver |-> receiver,
      amount |-> amount,
      fee |-> Fee(amount, transaction_type),
      timestamp |-> t,
      signature |-> << "sig", TxId(sender, receiver, amount, t), t >> ]

is_valid(tx) == tx.sender # "" /\ tx.receiver # "" /\ tx.amount > 0

-----------------------------------------------------------------------------
(* block.rs *)

RECURSIVE MerkleLevel(_)
\* one pass of the pairing loop: adjacent digests are hashed together and an
\* unpaired trailing digest is carried over unchanged
MerkleLevel(hashes) ==
    IF Len(hashes) = 0 THEN << >>
    ELSE IF Len(hashes) = 1 THEN << hashes[1] >>
    ELSE << << "node", hashes[1], hashes[2] >> >>
            \o MerkleLevel(SubSeq(hashes, 3, Len(hashes)))

RECURSIVE MerkleFold(_)
MerkleFold(hashes) ==
    IF Len(hashes) > 1 THEN MerkleFold(MerkleLevel(hashes)) ELSE hashes[1]

\* calculate_hash(&format!("{}{}{}", tx.sender, tx.receiver, tx.amount)): the
\* digest of the three fields written one after the other, nothing in between
LeafHash(tx) == << "leaf", tx.sender \o tx.receiver \o ToString(tx.amount) >>

LeafHashes(transactions) ==
    [i \in 1..Len(transactions) |-> LeafHash(transactions[i])]

calculate_merkle_root(transactions) ==
    IF Len(transactions) = 0 THEN << "0" >>
    ELSE MerkleFold(LeafHashes(transactions))

\* Block::calculate_hash: the digest of index, timestamp, merkle_root,
\* previous_hash, nonce and difficulty (validator and transactions are not hashed)
calculate_hash(b) ==
    << b.index, b.timestamp, b.merkle_root, b.previous_hash, b.nonce, b.difficulty >>

HashLen == 64

RECURSIVE TrailingZeros16(_, _)
TrailingZeros16(v, k) ==
    IF k < HashLen /\ v % 16 = 0 THEN TrailingZeros16(v \div 16, k + 1) ELSE k

\* the number of leading '0' characters of a block digest: a fixed function of
\* the hashed fields under which a prefix of d zeros is found within 16^d nonces
LeadingZeros(h) == TrailingZeros16(h[1] + h[2] + h[5] + h[6] + 1, 0)

NoValidator == << >>

\* Block::new with the Merkle root taken before the transactions are stored
BlockNewEmptyRoot(index, transactions, previous_hash, diff, t) ==
    LET block == [ index |-> index,
                   timestamp |-> t,
                   transactions |-> transactions,
                   merkle_root |-> calculate_merkle_root(<< >>),
                   previous_hash |-> previous_hash,
                   hash |-> << >>,
                   nonce |-> 0,
                   difficulty |-> diff,
                   validator |-> NoValidator ]
    IN  [block EXCEPT !.hash = calculate_hash(block)]

\* Block::new numbering the block one too high
BlockNewOffByOne(index, transactions, previous_hash, diff, t) ==
    LET block == [ index |-> index + 1,
                   timestamp |-> t,
                   transactions |-> transactions,
                   merkle_root |-> calculate_merkle_root(transactions),
                   previous_hash |-> previous_hash,
                   hash |-> << >>,
                   nonce |-> 0,
                   difficulty |-> diff,
                   validator |-> NoValidator ]
    IN  [block EXCEPT !.hash = calculate_hash(block)]

BlockNew(index, transactions, previous_hash, diff, t) ==
    LET block == [ index |-> index,
                   timestamp |-> t,
                   transactions |-> transactions,
                   merkle_root |-> calculate_merkle_root(transactions),
                   previous_hash |-> previous_hash,
                   hash |-> << >>,
                   nonce |-> 0,
                   difficulty |-> diff,
                   validator |-> NoValidator ]
    IN  [block EXCEPT !.hash = calculate_hash(block)]

\* mine_block with the nonce incremented and the hash not recomputed
mine_block_stale(b) ==
    IF LeadingZeros(b.hash) >= b.difficulty THEN b
    ELSE [b EXCEPT !.nonce = b.nonce + 1]

RECURSIVE mine_block_do_while(_)
\* mine_block testing the hash only after an increment of the nonce
mine_block_do_while(b) ==
    LET n == [b EXCEPT !.nonce = b.nonce + 1]
        m == [n EXCEPT !.hash = calculate_hash(n)]
    IN  IF LeadingZeros(m.hash) >= m.difficulty THEN m ELSE mine_block_do_while(m)

RECURSIVE mine_block(_)
\* while &self.hash[..self.difficulty] != target { nonce += 1; hash = calculate_hash() }
mine_block(b) ==
    IF LeadingZeros(b.hash) >= b.difficulty THEN b
    ELSE LET n == [b EXCEPT !.nonce = b.nonce + 1]
         IN  mine_block([n EXCEPT !.hash = calculate_hash(n)])

\* validate_with_pos accepting only a draw below the threshold
PosAcceptsStrict(stake_amount, random_value) == random_value < stake_amount

\* validate_with_pos: random_value <= validation_threshold, line 118
PosAccepts(stake_amount, random_value) == random_value <= stake_amount

\* validate_with_pos leaving the validator of the block unset
validate_with_pos_unsigned(b, validator, stake_amount) ==
    [b EXCEPT !.hash = calculate_hash(b)]

\* validate_with_pos: the block as finalized when the draw succeeds

validate_with_pos(b, validator, stake_amount) ==
    LET v == [b EXCEPT !.validator = << validator >>]
    IN  [v EXCEPT !.hash = calculate_hash(v)]

-----------------------------------------------------------------------------
(* wallet.rs *)

WalletNew(address) ==
    [ address |-> address, balance |-> 0, staking_balance |-> 0,
      transaction_history |-> << >> ]

\* HashMap::insert: the entry of key k is set to v, replacing any entry it had
Insert(map, k, v) == [x \in DOMAIN map \cup {k} |-> IF x = k THEN v ELSE map[x]]

-----------------------------------------------------------------------------
(* blockchain.rs *)

EmptyMap == [x \in {} |-> 0]

\* get_latest_block returning the first block
get_first_block(c) == c[1]

get_latest_block(c) == c[Len(c)]

\* create_genesis_block numbering the first block 1
GenesisBlockAtOne(diff, t) == BlockNew(1, << >>, << "0" >>, diff, t)

\* create_genesis_block
GenesisBlock(diff, t) == BlockNew(0, << >>, << "0" >>, diff, t)

\* the Result a call returns; required and available are the payload of
\* BlockchainError::InsufficientBalance
Ok == [status |-> "Ok", required |-> 0, available |-> 0]
InvalidTransaction == [status |-> "InvalidTransaction", required |-> 0, available |-> 0]
ConsensusError == [status |-> "ConsensusError", required |-> 0, available |-> 0]
InsufficientBalance(required, available) ==
    [status |-> "InsufficientBalance", required |-> required, available |-> available]

\* no Result is returned: the call panicked and the process is gone
Panic == [status |-> "Panic", required |-> 0, available |-> 0]

\* add_transaction debiting the amount without the fee
DebitSenderAmountOnly(w, tx) ==
    [w EXCEPT ![tx.sender] =
        [@ EXCEPT !.balance = @ - tx.amount,
                  !.transaction_history = Append(@, tx.id)]]

\* add_transaction lines 95-98: the sender pays amount + fee at admission
DebitSender(w, tx) ==
    [w EXCEPT ![tx.sender] =
        [@ EXCEPT !.balance = @ - (tx.amount + tx.fee),
                  !.transaction_history = Append(@, tx.id)]]

\* add_transaction rejecting a sender whose balance equals amount + fee
add_transaction_strict(tx, w, pool) ==
    LET total_amount == tx.amount + tx.fee
        same(r) == [result |-> r, wallets |-> w, pending |-> pool]
    IN  IF ~is_valid(tx) THEN same(InvalidTransaction)
        ELSE IF tx.sender # REWARD
        THEN IF tx.sender \in DOMAIN w
             THEN IF w[tx.sender].balance <= total_amount
                  THEN same(InsufficientBalance(total_amount, w[tx.sender].balance))
                  ELSE [result |-> Ok, wallets |-> DebitSender(w, tx),
                        pending |-> Append(pool, tx)]
             ELSE same(InvalidTransaction)
        ELSE [result |-> Ok, wallets |-> w, pending |-> Append(pool, tx)]

\* add_transaction: the Result, and the wallets and the pool it leaves
add_transaction(tx, w, pool) ==
    LET total_amount == tx.amount + tx.fee
        same(r) == [result |-> r, wallets |-> w, pending |-> pool]
    IN  IF ~is_valid(tx) THEN same(InvalidTransaction)
        ELSE IF tx.sender # REWARD
        THEN IF tx.sender \in DOMAIN w
             THEN IF w[tx.sender].balance < total_amount
                  THEN same(InsufficientBalance(total_amount, w[tx.sender].balance))
                  ELSE [result |-> Ok, wallets |-> DebitSender(w, tx),
                        pending |-> Append(pool, tx)]
             ELSE same(InvalidTransaction)
        ELSE [result |-> Ok, wallets |-> w, pending |-> Append(pool, tx)]

RECURSIVE SumFees(_)
\* self.pending_transactions.iter().map(|tx| tx.fee).sum()
SumFees(txs) == IF Len(txs) = 0 THEN 0 ELSE txs[1].fee + SumFees(Tail(txs))

\* the condition of the settlement loop, line 156
Settles(tx) == tx.sender # REWARD /\ tx.receiver # REWARD

\* the settlement loop crediting the fee with the amount
CreditWithFee(w, tx) ==
    IF tx.receiver \in DOMAIN w
    THEN [w EXCEPT ![tx.receiver] =
            [@ EXCEPT !.balance = @ + tx.amount + tx.fee,
                      !.transaction_history = Append(@, tx.id)]]
    ELSE Insert(w, tx.receiver,
            [WalletNew(tx.receiver) EXCEPT !.balance = tx.amount + tx.fee,
                                           !.transaction_history = << tx.id >>])

\* the body of the settlement loop, lines 157-165
Credit(w, tx) ==
    IF tx.receiver \in DOMAIN w
    THEN [w EXCEPT ![tx.receiver] =
            [@ EXCEPT !.balance = @ + tx.amount,
                      !.transaction_history = Append(@, tx.id)]]
    ELSE Insert(w, tx.receiver,
            [WalletNew(tx.receiver) EXCEPT !.balance = tx.amount,
                                           !.transaction_history = << tx.id >>])

RECURSIVE Settle(_, _)
\* for tx in &new_block.transactions { ... }
Settle(w, txs) ==
    IF Len(txs) = 0 THEN w
    ELSE Settle(IF Settles(txs[1]) THEN Credit(w, txs[1]) ELSE w, Tail(txs))

\* the match on consensus_algorithm, lines 130-153: whether the candidate is
\* finalized, whether the call aborted instead, and the block as finalized.
\* mine_block slices &self.hash[..self.difficulty] of the 64 characters of the
\* hash: with difficulty > 64 the slice is out of range and the thread panics
Finalize(alg, b, miner_address, vals, random_value, is_delegate) ==
    CASE alg = "ProofOfWork" ->
            IF b.difficulty > HashLen
            THEN [ok |-> FALSE, panic |-> TRUE, block |-> b]
            ELSE [ok |-> TRUE, panic |-> FALSE, block |-> mine_block(b)]
      [] alg = "ProofOfStake" ->
            IF miner_address \in DOMAIN vals
               /\ PosAccepts(vals[miner_address], random_value)
            THEN [ok |-> TRUE, panic |-> FALSE,
                  block |-> validate_with_pos(b, miner_address, vals[miner_address])]
            ELSE [ok |-> FALSE, panic |-> FALSE, block |-> b]
      [] alg = "DelegatedProofOfStake" ->
            IF is_delegate
            THEN [ok |-> TRUE, panic |-> FALSE,
                  block |-> [b EXCEPT !.validator = << miner_address >>]]
            ELSE [ok |-> FALSE, panic |-> FALSE, block |-> b]

\* the reward transaction of lines 114-119
RewardTx(miner_address, reward, total_fees, t) ==
    TransactionNew(REWARD, miner_address, reward + total_fees, Transfer, t)

\* the reward transaction put at the head of the pool
PushRewardFront(pool, reward_tx) == << reward_tx >> \o pool

\* self.pending_transactions.push(reward_tx), line 121
PushReward(pool, reward_tx) == Append(pool, reward_tx)

\* is_chain_valid: the position (from 0) of the first block that fails a check,
\* -1 when none does
RECURSIVE FirstInvalid(_, _)
FirstInvalid(c, i) ==
    IF i > Len(c) THEN 0 - 1
    ELSE IF c[i].hash # calculate_hash(c[i]) THEN i - 1
    ELSE IF c[i].previous_hash # c[i - 1].hash THEN i - 1
    ELSE IF c[i].merkle_root # calculate_merkle_root(c[i].transactions) THEN i - 1
    ELSE FirstInvalid(c, i + 1)

is_chain_valid(c) == FirstInvalid(c, 2) = 0 - 1

-----------------------------------------------------------------------------
(* The state machine: one action per public operation of Blockchain *)

NoTx == << >>

Call(op, who, tx, result) ==
    [op |-> op, who |-> who, tx |-> tx, result |-> result]

\* Blockchain::new
Init ==
    /\ difficulty \in Difficulties
    /\ mining_reward \in Rewards
    /\ consensus_algorithm \in Algorithms
    /\ now = 0
    /\ chain = << GenesisBlock(difficulty, now) >>
    /\ pending_transactions = << >>
    /\ wallets = EmptyMap
    /\ transaction_fees = 0
    /\ validators = EmptyMap
    /\ last = Call("new", "", NoTx, Ok)

\* the clock of Utc::now() advances between calls
Tick ==
    /\ now < MaxTime
    /\ now' = now + 1
    /\ last' = Call("tick", "", NoTx, Ok)
    /\ UNCHANGED << chain, difficulty, pending_transactions, mining_reward, wallets,
                    consensus_algorithm, transaction_fees, validators >>

CreateWallet(address) ==
    /\ wallets' = Insert(wallets, address, WalletNew(address))
    /\ last' = Call("create_wallet", address, NoTx, Ok)
    /\ UNCHANGED << chain, difficulty, pending_transactions, mining_reward,
                    consensus_algorithm, transaction_fees, validators, now >>

AddFundsToWallet(address, amount) ==
    /\ IF address \in DOMAIN wallets
       THEN /\ wallets[address].balance + amount <= MaxFunds * FundAmount
            /\ wallets[address].balance + amount >= 0 - MaxFunds * FundAmount
            /\ wallets' = [wallets EXCEPT ![address].balance = @ + amount]
            /\ last' = Call("add_funds_to_wallet", address, NoTx, Ok)
       ELSE /\ wallets' = wallets
            /\ last' = Call("add_funds_to_wallet", address, NoTx, InvalidTransaction)
    /\ UNCHANGED << chain, difficulty, pending_transactions, mining_reward,
                    consensus_algorithm, transaction_fees, validators, now >>

AddTransaction(sender, receiver, amount) ==
    LET tx == TransactionNew(sender, receiver, amount, Transfer, now)
        out == add_transaction(tx, wallets, pending_transactions)
    IN  /\ Len(pending_transactions) + 2 < MaxPool
        /\ wallets' = out.wallets
        /\ pending_transactions' = out.pending
        /\ last' = Call("add_transaction", sender, << tx >>, out.result)
        /\ UNCHANGED << chain, difficulty, mining_reward, consensus_algorithm,
                        transaction_fees, validators, now >>

\* mine_pending_transactions without the check of the producer's wallet
MinePendingTransactionsUnchecked(max_chain, miner_address, random_value, is_delegate) ==
    /\ Len(chain) < max_chain
    /\ Len(pending_transactions) < MaxPool
    /\ LET total_fees == SumFees(pending_transactions)
           reward_tx == RewardTx(miner_address, mining_reward, total_fees, now)
           pool == PushReward(pending_transactions, reward_tx)
           new_block == BlockNew(Len(chain), pool, get_latest_block(chain).hash,
                                 difficulty, now)
           fin == Finalize(consensus_algorithm, new_block, miner_address,
                           validators, random_value, is_delegate)
       IN  IF fin.ok
           THEN /\ wallets' = Settle(wallets, fin.block.transactions)
                /\ chain' = Append(chain, fin.block)
                /\ pending_transactions' = << >>
                /\ transaction_fees' = 0
                /\ last' = Call("mine_pending_transactions", miner_address,
                                << reward_tx >>, Ok)
           ELSE /\ pending_transactions' = pool
                /\ transaction_fees' = total_fees
                /\ last' = Call("mine_pending_transactions", miner_address,
                                << reward_tx >>,
                                IF fin.panic THEN Panic ELSE ConsensusError)
                /\ UNCHANGED << chain, wallets >>
    /\ UNCHANGED << difficulty, mining_reward, consensus_algorithm, validators, now >>

MinePendingTransactions(max_chain, miner_address, random_value, is_delegate) ==
    /\ Len(chain) < max_chain
    /\ Len(pending_transactions) < MaxPool
    /\ IF miner_address \notin DOMAIN wallets
       THEN /\ last' = Call("mine_pending_transactions", miner_address, NoTx,
                            InvalidTransaction)
            /\ UNCHANGED << chain, pending_transactions, wallets, transaction_fees >>
       ELSE LET total_fees == SumFees(pending_transactions)
                reward_tx == RewardTx(miner_address, mining_reward, total_fees, now)
                pool == PushReward(pending_transactions, reward_tx)
                new_block == BlockNew(Len(chain), pool, get_latest_block(chain).hash,
                                      difficulty, now)
                fin == Finalize(consensus_algorithm, new_block, miner_address,
                                validators, random_value, is_delegate)
            IN  IF fin.ok
                THEN /\ wallets' = Settle(wallets, fin.block.transactions)
                     /\ chain' = Append(chain, fin.block)
                     /\ pending_transactions' = << >>
                     /\ transaction_fees' = 0
                     /\ last' = Call("mine_pending_transactions", miner_address,
                                     << reward_tx >>, Ok)
                ELSE /\ pending_transactions' = pool
                     /\ transaction_fees' = total_fees
                     /\ last' = Call("mine_pending_transactions", miner_address,
                                     << reward_tx >>,
                                     IF fin.panic THEN Panic ELSE ConsensusError)
                     /\ UNCHANGED << chain, wallets >>
    /\ UNCHANGED << difficulty, mining_reward, consensus_algorithm, validators, now >>

AddValidator(address, stake_amount) ==
    /\ IF address \in DOMAIN wallets
       THEN IF wallets[address].balance < stake_amount
            THEN /\ last' = Call("add_validator", address, NoTx,
                        InsufficientBalance(stake_amount, wallets[address].balance))
                 /\ UNCHANGED << wallets, validators >>
            ELSE /\ wallets[address].balance - stake_amount <= MaxFunds * FundAmount
                 /\ wallets[address].staking_balance + stake_amount
                        >= 0 - MaxFunds * FundAmount
                 /\ wallets[address].staking_balance + stake_amount
                        <= MaxFunds * FundAmount
                 /\ wallets' = [wallets EXCEPT
                        ![address].balance = @ - stake_amount,
                        ![address].staking_balance = @ + stake_amount]
                 /\ validators' = Insert(validators, address, stake_amount)
                 /\ last' = Call("add_validator", address, NoTx, Ok)
       ELSE /\ last' = Call("add_validator", address, NoTx, InvalidTransaction)
            /\ UNCHANGED << wallets, validators >>
    /\ UNCHANGED << chain, difficulty, pending_transactions, mining_reward,
                    consensus_algorithm, transaction_fees, now >>

IsChainValid ==
    /\ last' = Call("is_chain_valid", "", NoTx,
                    [Ok EXCEPT !.status = IF is_chain_valid(chain) THEN "true"
                                          ELSE "false"])
    /\ UNCHANGED << chain, difficulty, pending_transactions, mining_reward, wallets,
                    consensus_algorithm, transaction_fees, validators, now >>

\* adjust_difficulty lowering the difficulty whatever its value
adjust_difficulty_no_floor(c, diff) ==
    IF Len(c) % 10 = 0 /\ Len(c) > 1
    THEN LET time_diff == get_latest_block(c).timestamp - c[Len(c) - 9].timestamp
         IN  IF time_diff < 540 THEN diff + 1
             ELSE IF time_diff > 660 THEN diff - 1
             ELSE diff
    ELSE diff

\* adjust_difficulty: avg_block_time = time_diff / 10.0 against 60.0 * 0.9 and
\* 60.0 * 1.1, compared here as time_diff against 540 and 660
adjust_difficulty(c, diff) ==
    IF Len(c) % 10 = 0 /\ Len(c) > 1
    THEN LET time_diff == get_latest_block(c).timestamp - c[Len(c) - 9].timestamp
         IN  IF time_diff < 540 THEN diff + 1
             ELSE IF time_diff > 660 /\ diff > 1 THEN diff - 1
             ELSE diff
    ELSE diff

AdjustDifficulty ==
    /\ adjust_difficulty(chain, difficulty) \in (0..MaxDifficulty) \cup {difficulty}
    /\ difficulty' = adjust_difficulty(chain, difficulty)
    /\ last' = Call("adjust_difficulty", "", NoTx, Ok)
    /\ UNCHANGED << chain, pending_transactions, mining_reward, wallets,
                    consensus_algorithm, transaction_fees, validators, now >>

\* the calls that change the ledger, their arguments drawn from the given sets
Calls(max_chain, txs, funds, stakes) ==
    \/ \E a \in Funded : CreateWallet(a)
    \/ \E a \in Funded, f \in funds : AddFundsToWallet(a, f)
    \/ \E i \in txs : AddTransaction(i[1], i[2], i[3])
    \/ \E m \in Addrs, d \in Draws, c \in BOOLEAN :
            MinePendingTransactions(max_chain, m, d, c)
    \/ \E a \in Funded, s \in stakes : AddValidator(a, s)
    \/ IsChainValid
    \/ AdjustDifficulty

Next == Tick \/ Calls(MaxChain, TxInputs, FundAmounts, StakeAmounts)

Spec == Init /\ [][Next]_vars

\* the ledger under a wide range of arguments, in calls made within one second
NextLedger ==
    Calls(MaxLedgerChain, LedgerTxInputs, LedgerFundAmounts, LedgerStakeAmounts)

SpecLedger == Init /\ [][NextLedger]_vars

-----------------------------------------------------------------------------
(* A block changed after the fact.  Every field of Block is pub (block.rs      *)
(* lines 7-17) and Blockchain.chain is reachable to the owner of the value.    *)

TamperFields ==
    { "index", "timestamp", "transactions", "transactions.amount",
      "transactions.fee", "merkle_root", "previous_hash", "hash", "nonce",
      "difficulty", "validator" }

\* the block b with one field given another value ("transactions" drops the
\* first transaction, "transactions.amount" and "transactions.fee" change one
\* field of the first transaction)
Tampered(b, field) ==
    CASE field = "index" -> [b EXCEPT !.index = @ + 1]
      [] field = "timestamp" -> [b EXCEPT !.timestamp = @ + 1]
      [] field = "transactions" -> [b EXCEPT !.transactions = Tail(@)]
      [] field = "transactions.amount" ->
            [b EXCEPT !.transactions[1].amount = @ + 1]
      [] field = "transactions.fee" ->
            [b EXCEPT !.transactions[1].fee = 0 - 1]
      [] field = "merkle_root" ->
            [b EXCEPT !.merkle_root = calculate_merkle_root(<< >>)]
      [] field = "previous_hash" -> [b EXCEPT !.previous_hash = b.hash]
      [] field = "hash" -> [b EXCEPT !.hash = b.previous_hash]
      [] field = "nonce" -> [b EXCEPT !.nonce = @ + 1]
      [] field = "difficulty" -> [b EXCEPT !.difficulty = @ + 1]
      [] field = "validator" -> [b EXCEPT !.validator = << "mallory" >>]

\* every block is as the program built it: none of the changes above was made
Intact ==
    /\ is_chain_valid(chain)
    /\ \A i \in 1..Len(chain) :
          /\ chain[i].validator # << "mallory" >>
          /\ \A j \in 1..Len(chain[i].transactions) :
                chain[i].transactions[j].fee
                    = Fee(chain[i].transactions[j].amount,
                          chain[i].transactions[j].transaction_type)

\* one field of the block at position i - 1 (not the genesis block) is changed
Tamper(i, field) ==
    /\ chain' = [chain EXCEPT ![i] = Tampered(@, field)]
    /\ last' = Call("tamper", field, << i - 1 >>, Ok)
    /\ UNCHANGED << difficulty, pending_transactions, mining_reward, wallets,
                    consensus_algorithm, transaction_fees, validators, now >>

TransferInputs == { << "alice", "bob", TxAmount >> }

\* the program runs, one field of one block is changed, and is_chain_valid is
\* called
NextTamper ==
    \/ Intact /\ \E a \in Funded : CreateWallet(a)
    \/ Intact /\ \E a \in Funded, f \in FundAmounts : AddFundsToWallet(a, f)
    \/ Intact /\ \E t \in TransferInputs : AddTransaction(t[1], t[2], t[3])
    \/ Intact /\ \E a \in Funded, s \in StakeAmounts : AddValidator(a, s)
    \/ Intact /\ \E m \in Funded, d \in Draws, c \in BOOLEAN :
                    MinePendingTransactions(MaxChain, m, d, c)
    \/ Intact /\ \E i \in 2..Len(chain), field \in TamperFields : Tamper(i, field)
    \/ IsChainValid

SpecTamper == Init /\ [][NextTamper]_vars

-----------------------------------------------------------------------------
(* The Merkle root of the pending pool *)

MaxLeaves == 4         \* entries of the pool whose Merkle root is taken

\* transfers from the reward address, which add_transaction admits without a
\* wallet; "bob" with 15 coins and "bob1" with 5 coins are written alike in a
\* leaf ("bob15" in the program, "bob150000" here)
MerkleTxInputs ==
    { << REWARD, "bob", 150000 >>, << REWARD, "bob1", 50000 >>,
      << REWARD, "bob", 50000 >>, << REWARD, "carol", 50000 >> }

\* add_transaction, the pool holding up to max_pool entries
AddTransactionUpTo(max_pool, sender, receiver, amount) ==
    LET tx == TransactionNew(sender, receiver, amount, Transfer, now)
        out == add_transaction(tx, wallets, pending_transactions)
    IN  /\ Len(pending_transactions) < max_pool
        /\ wallets' = out.wallets
        /\ pending_transactions' = out.pending
        /\ last' = Call("add_transaction", sender, << tx >>, out.result)
        /\ UNCHANGED << chain, difficulty, mining_reward, consensus_algorithm,
                        transaction_fees, validators, now >>

\* Block::calculate_merkle_root(&self.pending_transactions), as Block::new
\* takes it of the pool a block is built from
CalculateMerkleRoot ==
    /\ last' = Call("calculate_merkle_root", "", pending_transactions, Ok)
    /\ UNCHANGED << chain, difficulty, pending_transactions, mining_reward, wallets,
                    consensus_algorithm, transaction_fees, validators, now >>

NextMerkle ==
    \/ Tick
    \/ \E t \in MerkleTxInputs : AddTransactionUpTo(MaxLeaves, t[1], t[2], t[3])
    \/ CalculateMerkleRoot

SpecMerkle == Init /\ [][NextMerkle]_vars

-----------------------------------------------------------------------------
(* Construction with any difficulty *)

\* Blockchain::new, the difficulty and the strategy taken from the given sets
BlockchainNew(difficulties, algorithms) ==
    /\ difficulty \in difficulties
    /\ mining_reward \in Rewards
    /\ consensus_algorithm \in algorithms
    /\ now = 0
    /\ chain = << GenesisBlock(difficulty, now) >>
    /\ pending_transactions = << >>
    /\ wallets = EmptyMap
    /\ transaction_fees = 0
    /\ validators = EmptyMap
    /\ last = Call("new", "", NoTx, Ok)

\* difficulty is a usize: no hash prefix wanted, a prefix of one character, and
\* of one character more than a hash has
AnyDifficulties == {0, 1, HashLen + 1}

\* a process that panicked makes no further call
Running == last.result.status # "Panic"

NextAny ==
    \/ Running /\ \E a \in Funded : CreateWallet(a)
    \/ Running /\ \E a \in Funded, f \in FundAmounts : AddFundsToWallet(a, f)
    \/ Running /\ \E t \in TransferInputs : AddTransaction(t[1], t[2], t[3])
    \/ Running /\ \E a \in Funded, s \in StakeAmounts : AddValidator(a, s)
    \/ Running /\ \E m \in Addrs, d \in Draws, c \in BOOLEAN :
                     MinePendingTransactions(MaxChain, m, d, c)
    \/ Running /\ IsChainValid
    \/ Running /\ AdjustDifficulty

SpecAny == BlockchainNew(AnyDifficulties, Algorithms) /\ [][NextAny]_vars

-----------------------------------------------------------------------------
(* Difficulty retargeting: chains of ten blocks *)

MaxRetargetChain == 10     \* blocks on the chain, genesis included

RetargetDifficulties == {1, 2}

\* the seconds that pass before a block is produced (or none)
Intervals == {60, 80}

\* the clock advances, once between two blocks
TickBy(seconds) ==
    /\ now = get_latest_block(chain).timestamp
    /\ now' = now + seconds
    /\ last' = Call("tick", "", NoTx, Ok)
    /\ UNCHANGED << chain, difficulty, pending_transactions, mining_reward, wallets,
                    consensus_algorithm, transaction_fees, validators >>

NextRetarget ==
    \/ \E seconds \in Intervals : TickBy(seconds)
    \/ \E a \in Funded : CreateWallet(a)
    \/ \E m \in Funded : MinePendingTransactions(MaxRetargetChain, m, 0, TRUE)
    \/ AdjustDifficulty

SpecRetarget ==
    BlockchainNew(RetargetDifficulties, {"DelegatedProofOfStake"})
        /\ [][NextRetarget]_vars

-----------------------------------------------------------------------------
(* Settlement of blocks that hold several transfers *)

\* transfers to receivers that have no wallet at first, and one from the
\* reward address
SettleTxInputs ==
    { << "alice", "bob", TxAmount >>, << "alice", "carol", TxAmount >>,
      << REWARD, "bob", TxAmount >> }

NextSettle ==
    \/ \E a \in Funded : CreateWallet(a)
    \/ \E a \in Funded, f \in FundAmounts : AddFundsToWallet(a, f)
    \/ \E t \in SettleTxInputs :
            AddTransactionUpTo(MaxPool - 1, t[1], t[2], t[3])
    \/ \E m \in Funded, c \in BOOLEAN :
            MinePendingTransactions(MaxChain, m, 0, c)

SpecSettle ==
    BlockchainNew(Difficulties, {"ProofOfWork", "DelegatedProofOfStake"})
        /\ [][NextSettle]_vars

-----------------------------------------------------------------------------
(* Smart contracts and stored data *)

SmartContract(code) == [kind |-> "SmartContract", code |-> code, data |-> << >>]
Data(data) == [kind |-> "Data", code |-> "", data |-> data]

DATA == "BLOCKCHAIN_DATA"
DataAmount == 1000         \* store_data sends 0.1 coin

\* format!("contract_{}", calculate_hash(&format!("{}{}{}", creator, code, now)))
ContractAddress(creator, code, t) == "contract_" \o creator \o code \o ToString(t)

\* the inner loop of execute_smart_contract over one block: the code of the
\* first deployment to contract_address in txs, "" when there is none
RECURSIVE CodeInBlock(_, _)
CodeInBlock(txs, contract_address) ==
    IF Len(txs) = 0 THEN ""
    ELSE IF txs[1].transaction_type.kind = "SmartContract"
            /\ txs[1].receiver = contract_address
    THEN txs[1].transaction_type.code
    ELSE CodeInBlock(Tail(txs), contract_address)

\* the outer loop, lines 324-336: contract_code is taken block after block
\* until it is not empty
RECURSIVE ContractCode(_, _, _)
ContractCode(c, i, contract_address) ==
    IF i > Len(c) THEN ""
    ELSE IF CodeInBlock(c[i].transactions, contract_address) # ""
    THEN CodeInBlock(c[i].transactions, contract_address)
    ELSE ContractCode(c, i + 1, contract_address)

\* format!("Called function {} in smart contract {}: {:?}", function, address, args)
Response(function, contract_address, args) ==
    << "Called function", function, contract_address, args >>

\* what one deployment of TxAmount costs its creator: the amount and the fee
DeployCost == TxAmount + Fee(TxAmount, SmartContract(""))

\* add_funds_to_wallet, the balance kept within max_balance
AddFundsToWalletUpTo(max_balance, address, amount) ==
    /\ IF address \in DOMAIN wallets
       THEN /\ wallets[address].balance + amount <= max_balance
            /\ wallets' = [wallets EXCEPT ![address].balance = @ + amount]
            /\ last' = Call("add_funds_to_wallet", address, NoTx, Ok)
       ELSE /\ wallets' = wallets
            /\ last' = Call("add_funds_to_wallet", address, NoTx, InvalidTransaction)
    /\ UNCHANGED << chain, difficulty, pending_transactions, mining_reward,
                    consensus_algorithm, transaction_fees, validators, now >>

\* create_smart_contract: the Result is Ok(contract_address), the receiver of
\* the transaction recorded in last
CreateSmartContract(creator, code, initial_value) ==
    LET contract_address == ContractAddress(creator, code, now)
        tx == TransactionNew(creator, contract_address, initial_value,
                             SmartContract(code), now)
        out == add_transaction(tx, wallets, pending_transactions)
    IN  /\ Len(pending_transactions) + 2 < MaxPool
        /\ pending_transactions' = out.pending
        /\ wallets' = IF out.result = Ok
                      THEN Insert(out.wallets, contract_address,
                                  WalletNew(contract_address))
                      ELSE out.wallets
        /\ last' = Call("create_smart_contract", creator, << tx >>, out.result)
        /\ UNCHANGED << chain, difficulty, mining_reward, consensus_algorithm,
                        transaction_fees, validators, now >>

StoreData(sender, data) ==
    LET tx == TransactionNew(sender, DATA, DataAmount, Data(data), now)
        out == add_transaction(tx, wallets, pending_transactions)
    IN  /\ Len(pending_transactions) + 2 < MaxPool
        /\ pending_transactions' = out.pending
        /\ wallets' = out.wallets
        /\ last' = Call("store_data", sender, << tx >>, out.result)
        /\ UNCHANGED << chain, difficulty, mining_reward, consensus_algorithm,
                        transaction_fees, validators, now >>

ExecuteSmartContract(contract_address, function, args) ==
    /\ IF ContractCode(chain, 1, contract_address) = ""
       THEN last' = Call("execute_smart_contract", contract_address, NoTx,
                         InvalidTransaction)
       ELSE last' = Call("execute_smart_contract", contract_address,
                         << Response(function, contract_address, args) >>, Ok)
    /\ UNCHANGED << chain, difficulty, pending_transactions, mining_reward, wallets,
                    consensus_algorithm, transaction_fees, validators, now >>

Codes == {"", "fn get() {}"}
Functions == {"get"}
Arguments == {<< >>, << "1" >>}

\* the addresses create_smart_contract can return here, and one it cannot
ContractAddresses ==
    {ContractAddress(a, code, t) : a \in Funded, code \in Codes, t \in 0..MaxTime}
        \cup {"contract_none"}

NextContract ==
    \/ Tick
    \/ \E a \in Funded : CreateWallet(a)
    \/ \E a \in Funded : AddFundsToWalletUpTo(DeployCost, a, DeployCost)
    \/ \E m \in Funded, c \in BOOLEAN : MinePendingTransactions(MaxChain, m, 0, c)
    \/ \E a \in Funded, code \in Codes : CreateSmartContract(a, code, TxAmount)
    \/ \E a \in Funded : StoreData(a, << 1, 2 >>)
    \/ \E addr \in ContractAddresses, f \in Functions, args \in Arguments :
            ExecuteSmartContract(addr, f, args)

SpecContract ==
    BlockchainNew(Difficulties, {"ProofOfWork", "DelegatedProofOfStake"})
        /\ [][NextContract]_vars

-----------------------------------------------------------------------------

(* Staking: wallets created once, funded once, staking in two parts *)

\* two stakes that one funding pays for together
StakeParts == {FundAmount \div 2, FundAmount - (FundAmount \div 2)}

NextStake ==
    \/ \E a \in Addrs : a \notin DOMAIN wallets /\ CreateWallet(a)
    \/ \E a \in Addrs : AddFundsToWalletUpTo(FundAmount, a, FundAmount)
    \/ \E a \in Addrs, s \in StakeParts : AddValidator(a, s)
    \/ \E m \in Addrs, d \in Draws :
            MinePendingTransactions(MaxLedgerChain, m, d, FALSE)

SpecStake == BlockchainNew(Difficulties, {"ProofOfStake"}) /\ [][NextStake]_vars

-----------------------------------------------------------------------------

(* Properties *)

Mined == last.op = "mine_pending_transactions"
MinedOk == Mined /\ last.result.status = "Ok"
Admitted == last.op = "add_transaction" /\ last.result.status = "Ok"
Tip == chain[Len(chain)]

RECURSIVE SumAmountsTo(_, _)
\* the sum of the amounts of the transactions of txs whose receiver is r
SumAmountsTo(txs, r) ==
    IF Len(txs) = 0 THEN 0
    ELSE (IF txs[1].receiver = r THEN txs[1].amount ELSE 0) + SumAmountsTo(Tail(txs), r)

BalanceOf(w, a) == IF a \in DOMAIN w THEN w[a].balance ELSE 0

\* C1: a successful mine_pending_transactions(producer) raises the producer's
\* balance by exactly mining_reward plus the fees of the transactions that were
\* pending (stated for a producer that is the receiver of no pending transaction)
C1_ProducerIsPaid ==
    [][ (MinedOk' /\ SumAmountsTo(pending_transactions, last'.who) = 0)
          => wallets'[last'.who].balance
                = wallets[last'.who].balance + mining_reward
                  + SumFees(pending_transactions) ]_vars

\* C2: a mine_pending_transactions that returns a Consensus-Error leaves the
\* pending pool, the fee accumulator and every wallet as they were before the call
C2_FailureLeavesPoolUntouched ==
    [][ (Mined' /\ last'.result.status = "ConsensusError")
          => /\ pending_transactions' = pending_transactions
             /\ transaction_fees' = transaction_fees
             /\ wallets' = wallets ]_vars

\* C3: a failing mine_pending_transactions appends no block and drops no
\* transaction: the pool it found is still there, in the same order, as the
\* leading part of the pool it leaves
C3_FailureKeepsTransactions ==
    [][ (Mined' /\ last'.result.status # "Ok")
          => /\ chain' = chain
             /\ Len(pending_transactions') >= Len(pending_transactions)
             /\ SubSeq(pending_transactions', 1, Len(pending_transactions))
                   = pending_transactions ]_vars

C3_Witness ==
    /\ Mined
    /\ last.result.status = "ConsensusError"
    /\ Len(pending_transactions) = 3
    /\ pending_transactions[1].sender = "alice"

\* C4: once a production attempt succeeds, every transaction admitted by
\* add_transaction is in the appended block and its receiver has been credited
\* its amount (stated under Proof-of-Work, where every pending transaction was
\* admitted by add_transaction, and for receivers other than the producer)
C4_AdmittedIsCredited ==
    [][ (MinedOk' /\ consensus_algorithm = "ProofOfWork")
          => \A i \in 1..Len(pending_transactions) :
                LET r == pending_transactions[i].receiver
                IN  /\ chain'[Len(chain')].transactions[i] = pending_transactions[i]
                    /\ r # last'.who
                          => /\ r \in DOMAIN wallets'
                             /\ wallets'[r].balance
                                   = BalanceOf(wallets, r)
                                     + SumAmountsTo(pending_transactions, r) ]_vars

C6_Rejections ==
    [][ last'.op = "add_transaction"
          => LET tx == last'.tx[1]
                 invalid == tx.sender = "" \/ tx.receiver = "" \/ tx.amount <= 0
                 expected ==
                    IF invalid THEN InvalidTransaction
                    ELSE IF tx.sender = REWARD THEN Ok
                    ELSE IF tx.sender \notin DOMAIN wallets THEN InvalidTransaction
                    ELSE IF wallets[tx.sender].balance < tx.amount + tx.fee
                    THEN InsufficientBalance(tx.amount + tx.fee,
                                             wallets[tx.sender].balance)
                    ELSE Ok
             IN  /\ last'.result = expected
                 /\ last'.result.status # "Ok"
                       => /\ pending_transactions' = pending_transactions
                          /\ wallets' = wallets
                 /\ last'.result.status = "Ok"
                       => pending_transactions' = Append(pending_transactions, tx) ]_vars

C6_Witness ==
    /\ last.op = "add_transaction"
    /\ last.result.status = "InsufficientBalance"
    /\ last.result.available > 0
    /\ last.result.required > last.result.available

\* C7: every wallet's balance and staking balance are >= 0
C7_BalancesNonNegative ==
    \A a \in DOMAIN wallets :
        wallets[a].balance >= 0 /\ wallets[a].staking_balance >= 0

\* C8: every block after the first holds the hash of the block before it
C8_Linkage ==
    \A i \in 2..Len(chain) : chain[i].previous_hash = chain[i - 1].hash

C8_Witness ==
    /\ Len(chain) = 3
    /\ consensus_algorithm = "ProofOfStake"
    /\ chain[2].validator # NoValidator

\* C9: the stored hash of a block is calculate_hash of its fields: for every
\* block of the chain (the genesis block as Block::new left it, the others as
\* their finalization left them), for the candidate block a production call
\* would build now, and for that candidate as each strategy finalizes it
C9_HashOfFields ==
    /\ \A i \in 1..Len(chain) : chain[i].hash = calculate_hash(chain[i])
    /\ \A m \in Addrs, d \in Draws, c \in BOOLEAN :
          LET reward_tx == RewardTx(m, mining_reward,
                                    SumFees(pending_transactions), now)
              b == BlockNew(Len(chain), PushReward(pending_transactions, reward_tx),
                            get_latest_block(chain).hash, difficulty, now)
              fin == Finalize(consensus_algorithm, b, m, validators, d, c)
          IN  /\ b.hash = calculate_hash(b)
              /\ fin.ok => fin.block.hash = calculate_hash(fin.block)

C9_Witness ==
    /\ Len(chain) = 3
    /\ consensus_algorithm = "ProofOfWork"
    /\ chain[2].nonce > 0
    /\ chain[3].nonce > 0

\* C10: is_chain_valid holds of the chain in every reachable state, each block's
\* merkle_root is the Merkle root of its transactions, and a call of
\* is_chain_valid returns true
C10_ChainValid ==
    /\ is_chain_valid(chain)
    /\ \A i \in 1..Len(chain) :
          chain[i].merkle_root = calculate_merkle_root(chain[i].transactions)
    /\ last.op = "is_chain_valid" => last.result.status = "true"

C10_Witness ==
    /\ last.op = "is_chain_valid"
    /\ last.result.status = "true"
    /\ Len(chain) = 3
    /\ Len(chain[2].transactions) >= 2
    /\ chain[3].timestamp > chain[2].timestamp

\* C11: after one field of one block other than the genesis block of a valid
\* chain has been changed, is_chain_valid fails, and the first block it fails
\* at is the changed block
C11_TamperDetected ==
    last.op = "tamper" => FirstInvalid(chain, 2) = last.tx[1]

\* C11, the part that holds: a change of index, timestamp, merkle_root,
\* previous_hash, hash, nonce or difficulty, of the list of transactions or of
\* a transaction's amount is found at the changed block
C11_HashedFieldsDetected ==
    (last.op = "tamper" /\ last.who \notin {"validator", "transactions.fee"})
        => FirstInvalid(chain, 2) = last.tx[1]

\* the list txs in the order given by the permutation p of its positions
Permuted(txs, p) == [i \in 1..Len(txs) |-> txs[p[i]]]

\* C12: the Merkle root of the empty list is "0"; of a list of two or more
\* transactions, every permutation that gives another list gives another root;
\* a level of odd length ends with its last digest carried over unchanged
C12_OrderSensitive ==
    last.op = "calculate_merkle_root"
        => LET txs == last.tx
               leaves == LeafHashes(txs)
           IN  /\ Len(txs) = 0 => calculate_merkle_root(txs) = << "0" >>
               /\ Len(txs) >= 2
                     => \A p \in Permutations(1..Len(txs)) :
                           Permuted(txs, p) # txs
                              => calculate_merkle_root(Permuted(txs, p))
                                    # calculate_merkle_root(txs)
               /\ Len(txs) % 2 = 1
                     => MerkleLevel(leaves)[Len(MerkleLevel(leaves))]
                           = leaves[Len(leaves)]

\* C12, the part that holds: a permutation that changes the list of leaf
\* strings (sender, receiver and amount written together) changes the root
C12_LeafOrderSensitive ==
    last.op = "calculate_merkle_root"
        => LET txs == last.tx
               leaves == LeafHashes(txs)
           IN  /\ Len(txs) = 0 => calculate_merkle_root(txs) = << "0" >>
               /\ \A p \in Permutations(1..Len(txs)) :
                     LeafHashes(Permuted(txs, p)) # leaves
                        <=> calculate_merkle_root(Permuted(txs, p))
                               # calculate_merkle_root(txs)
               /\ Len(txs) % 2 = 1
                     => MerkleLevel(leaves)[Len(MerkleLevel(leaves))]
                           = leaves[Len(leaves)]

\* C13: a successful mine_pending_transactions appends exactly one block, whose
\* index is the former length of the chain, whose previous_hash is the former
\* tip's hash, whose difficulty is the chain's, and whose transactions are the
\* former pool followed by the new reward transaction (from the reward address
\* to the producer, of mining_reward plus the pool's fees); it leaves the pool
\* empty and the fee accumulator 0.  A failing one leaves the chain as it was
C13_OneBlockPerRound ==
    [][ Mined'
          => IF last'.result.status = "Ok"
             THEN LET b == chain'[Len(chain')]
                      reward_tx == b.transactions[Len(b.transactions)]
                  IN  /\ Len(chain') = Len(chain) + 1
                      /\ SubSeq(chain', 1, Len(chain)) = chain
                      /\ b.index = Len(chain)
                      /\ b.previous_hash = chain[Len(chain)].hash
                      /\ b.difficulty = difficulty
                      /\ Len(b.transactions) = Len(pending_transactions) + 1
                      /\ SubSeq(b.transactions, 1, Len(pending_transactions))
                            = pending_transactions
                      /\ reward_tx = last'.tx[1]
                      /\ reward_tx.sender = REWARD
                      /\ reward_tx.receiver = last'.who
                      /\ reward_tx.amount
                            = mining_reward + SumFees(pending_transactions)
                      /\ pending_transactions' = << >>
                      /\ transaction_fees' = 0
             ELSE chain' = chain ]_vars

C13_Witness ==
    /\ MinedOk
    /\ Len(chain) = 3
    /\ Len(Tip.transactions) = 3
    /\ Tip.transactions[1].sender = "alice"
    /\ Tip.transactions[2].sender = REWARD
    /\ transaction_fees = 0
    /\ pending_transactions = << >>

\* C17: no call aborts: every call completes or returns one of the error kinds
C17_NoAbort == last.result.status # "Panic"

\* the step is a mine_pending_transactions(m) under Proof-of-Stake whose
\* random draw is d
PosStep(m, d) ==
    /\ consensus_algorithm = "ProofOfStake"
    /\ \E c \in BOOLEAN : MinePendingTransactions(MaxLedgerChain, m, d, c)

\* the step succeeds, with m the validator of the one block it appends, when m
\* is registered and d is at most its stake (d <= stake / 1000 in the units of
\* the draw); otherwise it returns a Consensus-Error and appends nothing
PosOutcome(m, d) ==
    IF m \in DOMAIN validators /\ d <= validators[m]
    THEN /\ last'.result.status = "Ok"
         /\ Len(chain') = Len(chain) + 1
         /\ SubSeq(chain', 1, Len(chain)) = chain
         /\ chain'[Len(chain')].validator = << m >>
    ELSE /\ last'.result.status = "ConsensusError"
         /\ chain' = chain

\* C14, as claimed: under Proof-of-Stake every mine_pending_transactions(m)
\* succeeds exactly when m is a registered validator and the draw is at most
\* stake / 1000, and returns a Consensus-Error otherwise
C14_PosOutcome ==
    [][ \A m \in Addrs, d \in Draws : PosStep(m, d) => PosOutcome(m, d) ]_vars

\* C14, amended: the same for a producer that has a wallet (without one the
\* call returns Invalid-Transaction before the strategy is consulted)
C14_PosOutcomeWithWallet ==
    [][ \A m \in Addrs, d \in Draws :
            (PosStep(m, d) /\ m \in DOMAIN wallets) => PosOutcome(m, d) ]_vars

C14_Witness ==
    /\ MinedOk
    /\ consensus_algorithm = "ProofOfStake"
    /\ last.who \in DOMAIN validators
    /\ validators[last.who] = FundAmount
    /\ Tip.validator = << last.who >>
    /\ Len(Tip.transactions) >= 2

\* the step is a Proof-of-Stake production by a validator registered with
\* stake 0, the draw being d
ZeroStakeStep(m, d) ==
    /\ PosStep(m, d)
    /\ m \in DOMAIN validators
    /\ validators[m] = 0

\* C15, as claimed: a validator registered with stake 0 gets a Consensus-Error,
\* and no block, for every draw
C15_ZeroStakeNeverSucceeds ==
    [][ \A m \in Addrs, d \in Draws :
            ZeroStakeStep(m, d)
               => last'.result.status = "ConsensusError" /\ chain' = chain ]_vars

\* C15, amended: a validator registered with stake 0 gets a Consensus-Error,
\* and no block, for every draw above 0, and succeeds when the draw is 0.0
C15_ZeroStakeSucceedsOnZeroDraw ==
    [][ \A m \in Addrs, d \in Draws :
            ZeroStakeStep(m, d)
               => IF d = 0
                  THEN /\ last'.result.status = "Ok"
                       /\ Len(chain') = Len(chain) + 1
                       /\ chain'[Len(chain')].validator = << m >>
                  ELSE /\ last'.result.status = "ConsensusError"
                       /\ chain' = chain ]_vars

C15_Witness ==
    /\ MinedOk
    /\ consensus_algorithm = "ProofOfStake"
    /\ last.who \in DOMAIN validators
    /\ validators[last.who] = 0
    /\ Tip.validator = << last.who >>

\* C18: mine_pending_transactions for a producer that has no wallet returns
\* Invalid-Transaction and leaves the chain, the pool, the fee accumulator and
\* the wallets as they were, whatever the consensus strategy
C18_NoWalletNoEffect ==
    [][ (Mined' /\ last'.who \notin DOMAIN wallets)
          => /\ last'.result = InvalidTransaction
             /\ chain' = chain
             /\ pending_transactions' = pending_transactions
             /\ transaction_fees' = transaction_fees
             /\ wallets' = wallets
             /\ validators' = validators ]_vars

C18_Witness ==
    /\ Mined
    /\ last.result.status = "InvalidTransaction"
    /\ last.who \notin DOMAIN wallets
    /\ "alice" \in DOMAIN wallets
    /\ Len(pending_transactions) > 0
    /\ transaction_fees > 0

\* C16: adjust_difficulty changes nothing but the difficulty, and the
\* difficulty only when the length of the chain is a positive multiple of 10:
\* with avg the tenth of the seconds between the first and the last of the ten
\* latest blocks, it rises by 1 when avg < 54 (10 * avg < 540), falls by 1 when
\* avg > 66 and the difficulty is above 1, and stays otherwise; a difficulty
\* of 1 or more stays 1 or more
C16_Retarget ==
    [][ last'.op = "adjust_difficulty"
          => /\ UNCHANGED << chain, pending_transactions, mining_reward, wallets,
                             consensus_algorithm, transaction_fees, validators >>
             /\ IF Len(chain) % 10 = 0 /\ Len(chain) > 0
                THEN LET ten_avg == chain[Len(chain)].timestamp
                                       - chain[Len(chain) - 9].timestamp
                     IN  difficulty' =
                            IF ten_avg < 10 * 54 THEN difficulty + 1
                            ELSE IF ten_avg > 10 * 66 /\ difficulty > 1
                            THEN difficulty - 1
                            ELSE difficulty
                ELSE difficulty' = difficulty
             /\ difficulty >= 1 => difficulty' >= 1 ]_vars

C16_Witness ==
    /\ last.op = "adjust_difficulty"
    /\ Len(chain) = 10
    /\ chain[10].timestamp - chain[1].timestamp > 660
    /\ chain[1].difficulty = 2
    /\ difficulty = 1

ErrorKinds ==
    {"InsufficientBalance", "InvalidTransaction", "InvalidBlock", "ConsensusError"}

\* C19: under Proof-of-Work a mine_pending_transactions whose producer has a
\* wallet returns no error.  When the hash can have the prefix (difficulty up
\* to 64) the call returns Ok, and the block it appends has a hash with
\* `difficulty` leading '0' characters that is calculate_hash of its fields; its
\* nonce is the first, counted from 0, with which the block's hash has that
\* prefix (0 when the difficulty is 0)
C19_ProofOfWork ==
    [][ (Mined' /\ consensus_algorithm = "ProofOfWork"
                /\ last'.who \in DOMAIN wallets)
          => /\ last'.result.status \notin ErrorKinds
             /\ difficulty <= HashLen
                   => LET b == chain'[Len(chain')]
                      IN  /\ last'.result.status = "Ok"
                          /\ Len(chain') = Len(chain) + 1
                          /\ LeadingZeros(b.hash) >= b.difficulty
                          /\ b.difficulty = difficulty
                          /\ b.hash = calculate_hash(b)
                          /\ \A n \in 0..(b.nonce - 1) :
                                LeadingZeros(calculate_hash([b EXCEPT !.nonce = n]))
                                    < b.difficulty
                          /\ difficulty = 0 => b.nonce = 0 ]_vars

C19_Witness ==
    /\ MinedOk
    /\ consensus_algorithm = "ProofOfWork"
    /\ difficulty = 1
    /\ Len(chain) = 3
    /\ Tip.nonce > 1
    /\ Len(Tip.transactions) >= 2

\* the positions of txs whose sender and receiver both differ from the
\* reward address
Transfers(txs) ==
    {i \in 1..Len(txs) : txs[i].sender # REWARD /\ txs[i].receiver # REWARD}

RECURSIVE TransfersTo(_, _)
\* the transactions of txs, in order, that are such transfers to r
TransfersTo(txs, r) ==
    IF Len(txs) = 0 THEN << >>
    ELSE (IF txs[1].sender # REWARD /\ txs[1].receiver = r
          THEN << txs[1] >> ELSE << >>) \o TransfersTo(Tail(txs), r)

RECURSIVE SumAmounts(_)
SumAmounts(txs) == IF Len(txs) = 0 THEN 0 ELSE txs[1].amount + SumAmounts(Tail(txs))

\* C20: a successful production credits, for every included transaction whose
\* sender and receiver both differ from the reward address, the amount (not
\* the fee) to the receiver and appends the id to the receiver's history, in
\* the order of the block; a receiver that had no wallet gets one, with staking
\* balance 0, whose balance and history are those credits alone; a wallet that
\* is the receiver of no included transaction is unchanged
C20_Settlement ==
    [][ MinedOk'
          => LET txs == chain'[Len(chain')].transactions
                 receivers == {txs[i].receiver : i \in Transfers(txs)}
                 named == {txs[i].receiver : i \in 1..Len(txs)}
             IN  /\ DOMAIN wallets' = DOMAIN wallets \cup receivers
                 /\ \A r \in receivers :
                       LET to_r == TransfersTo(txs, r)
                           old == IF r \in DOMAIN wallets THEN wallets[r]
                                  ELSE [address |-> r, balance |-> 0,
                                        staking_balance |-> 0,
                                        transaction_history |-> << >>]
                       IN  /\ wallets'[r].address = r
                           /\ wallets'[r].balance = old.balance + SumAmounts(to_r)
                           /\ wallets'[r].staking_balance = old.staking_balance
                           /\ wallets'[r].transaction_history
                                 = old.transaction_history
                                   \o [i \in 1..Len(to_r) |-> to_r[i].id]
                 /\ \A a \in DOMAIN wallets \ named : wallets'[a] = wallets[a] ]_vars

C20_Witness ==
    /\ MinedOk
    /\ Len(chain) = 3
    /\ Len(chain[2].transactions) = 3
    /\ chain[2].transactions[1].receiver = "bob"
    /\ chain[2].transactions[2].receiver = "bob"
    /\ Len(chain[3].transactions) = 3
    /\ chain[3].transactions[1].receiver = "bob"
    /\ chain[3].transactions[2].receiver = "carol"
    /\ {"bob", "carol"} \subseteq DOMAIN wallets
    /\ wallets["bob"].balance = 3 * TxAmount
    /\ Len(wallets["bob"].transaction_history) = 3
    /\ wallets["carol"].balance = TxAmount


\* C21: the chain is append-only and indexed by position: it always holds the
\* genesis block first (index 0, no transactions, previous_hash "0"), the block
\* at position i has index i, and every step keeps the blocks it found, as they
\* were, as the leading part of the chain it leaves
C21_AppendOnly ==
    /\ [](/\ Len(chain) >= 1
          /\ chain[1].index = 0
          /\ chain[1].transactions = << >>
          /\ chain[1].previous_hash = << "0" >>
          /\ \A i \in 1..Len(chain) : chain[i].index = i - 1)
    /\ [][ /\ Len(chain') >= Len(chain)
           /\ SubSeq(chain', 1, Len(chain)) = chain ]_vars

C21_Witness ==
    /\ MinedOk
    /\ Len(chain) = 3
    /\ chain[3].index = 2
    /\ Len(chain[2].transactions) = 2
    /\ chain[2].transactions[1].sender = "alice"
    /\ now > chain[2].timestamp


\* a block of c holds a smart-contract deployment whose receiver is addr
Deployed(c, addr) ==
    \E i \in 1..Len(c) : \E j \in 1..Len(c[i].transactions) :
        /\ c[i].transactions[j].transaction_type.kind = "SmartContract"
        /\ c[i].transactions[j].receiver = addr

\* C22: execute_smart_contract(addr, function, args) changes no state; it
\* returns Invalid-Transaction while no block holds a deployment to addr (the
\* deployment being at most in the pending pool), and the simulated response
\* once a block holds one, whatever the code that was deployed
C22_ExecuteFindsDeployed ==
    [][ last'.op = "execute_smart_contract"
          => /\ UNCHANGED << chain, difficulty, pending_transactions, mining_reward,
                             wallets, consensus_algorithm, transaction_fees,
                             validators >>
             /\ IF Deployed(chain, last'.who)
                THEN /\ last'.result.status = "Ok"
                     /\ \E f \in Functions, args \in Arguments :
                           last'.tx = << Response(f, last'.who, args) >>
                ELSE last'.result.status = "InvalidTransaction" ]_vars

\* the same for deployments of a code that is not the empty text
C22_ExecuteFindsNonEmptyCode ==
    [][ last'.op = "execute_smart_contract"
          => /\ UNCHANGED << chain, difficulty, pending_transactions, mining_reward,
                             wallets, consensus_algorithm, transaction_fees,
                             validators >>
             /\ IF \E code \in Codes \ {""}, a \in Funded, t \in 0..MaxTime :
                      /\ last'.who = ContractAddress(a, code, t)
                      /\ Deployed(chain, last'.who)
                THEN /\ last'.result.status = "Ok"
                     /\ \E f \in Functions, args \in Arguments :
                           last'.tx = << Response(f, last'.who, args) >>
                ELSE last'.result.status = "InvalidTransaction" ]_vars

C22_PendingOnly ==
    /\ last.op = "execute_smart_contract"
    /\ last.result.status = "InvalidTransaction"
    /\ \E j \in 1..Len(pending_transactions) :
          /\ pending_transactions[j].receiver = last.who
          /\ pending_transactions[j].transaction_type.kind = "SmartContract"

C22_Found ==
    /\ last.op = "execute_smart_contract"
    /\ last.result.status = "Ok"
    /\ Deployed(chain, last.who)


\* the positions of txs whose sender is the reward address
RewardPositions(txs) == {i \in 1..Len(txs) : txs[i].sender = REWARD}

\* the block holds one transaction from the reward address, the last one, paid
\* to producer: mining_reward plus the fees of the transactions before it
OneReward(b, producer) ==
    LET txs == b.transactions
    IN  /\ RewardPositions(txs) = {Len(txs)}
        /\ txs[Len(txs)].receiver = producer
        /\ txs[Len(txs)].amount
              = mining_reward + SumFees(SubSeq(txs, 1, Len(txs) - 1))

\* C23: every block appended by a production holds exactly one transaction
\* whose sender is the reward address; it is the last of the block, its
\* receiver is the producer and its amount is mining_reward plus the fees of
\* the other transactions of the block, also after failed attempts
C23_OneRewardPerBlock ==
    [][ MinedOk' => OneReward(chain'[Len(chain')], last'.who) ]_vars

\* the same for a production that finds no transaction from the reward address
\* in the pool (none left by a failed attempt, none admitted by add_transaction)
C23_OneRewardOnCleanPool ==
    [][ (MinedOk' /\ RewardPositions(pending_transactions) = {})
          => OneReward(chain'[Len(chain')], last'.who) ]_vars

C23_AfterFailedAttempt ==
    /\ MinedOk
    /\ Len(Tip.transactions) = 3
    /\ RewardPositions(Tip.transactions) = {2, 3}
    /\ Tip.transactions[1].sender = "alice"


\* a successful add_validator(a, s) moves s, the stake it registers, from a's
\* balance to a's staking balance and changes no other wallet; a failed one
\* changes neither the wallets nor the registry
AddValidatorMoves ==
    last'.op = "add_validator"
       => IF last'.result.status = "Ok"
          THEN LET a == last'.who
                   s == validators'[a]
               IN  /\ wallets'[a].balance = wallets[a].balance - s
                   /\ wallets'[a].staking_balance = wallets[a].staking_balance + s
                   /\ wallets'[a].balance + wallets'[a].staking_balance
                         = wallets[a].balance + wallets[a].staking_balance
                   /\ \A b \in DOMAIN wallets \ {a} : wallets'[b] = wallets[b]
                   /\ DOMAIN wallets' = DOMAIN wallets
          ELSE /\ wallets' = wallets
               /\ validators' = validators
               /\ \/ last'.who \notin DOMAIN wallets
                  \/ \E s \in StakeParts \cup LedgerStakeAmounts :
                        wallets[last'.who].balance < s

\* C24: the registry agrees with the ledger: the stake registered for an
\* address is the staking balance of its wallet, in every state; and
\* add_validator moves the stake or changes nothing, as above
C24_RegistryAgrees ==
    /\ [](\A a \in DOMAIN validators :
              /\ a \in DOMAIN wallets
              /\ validators[a] = wallets[a].staking_balance)
    /\ [][AddValidatorMoves]_vars

\* the effect of one add_validator alone
C24_AddValidatorMoves == [][AddValidatorMoves]_vars

C24_StakedTwice ==
    /\ last.op = "add_validator"
    /\ last.result.status = "Ok"
    /\ "alice" \in DOMAIN wallets \cap DOMAIN validators
    /\ wallets["alice"].balance = 0
    /\ wallets["alice"].staking_balance = FundAmount
    /\ validators["alice"] < FundAmount


\* create_wallet(a) for an address without a wallet: a gets a wallet with
\* balance 0, staking balance 0 and no history, and nothing else changes
CreatesFresh(a) ==
    /\ DOMAIN wallets' = DOMAIN wallets \cup {a}
    /\ wallets'[a] = [address |-> a, balance |-> 0, staking_balance |-> 0,
                      transaction_history |-> << >>]
    /\ \A b \in DOMAIN wallets \ {a} : wallets'[b] = wallets[b]
    /\ UNCHANGED << chain, difficulty, pending_transactions, mining_reward,
                    consensus_algorithm, transaction_fees, validators >>

\* C25: create_wallet(address) creates an empty wallet only when the address
\* has none; for an address that has a wallet it leaves the balance, the
\* staking balance and the history as they were
C25_CreateWalletKeepsFunds ==
    [][ last'.op = "create_wallet"
          => IF last'.who \in DOMAIN wallets
             THEN /\ wallets' = wallets
                  /\ UNCHANGED << chain, difficulty, pending_transactions,
                                  mining_reward, consensus_algorithm,
                                  transaction_fees, validators >>
             ELSE CreatesFresh(last'.who) ]_vars

\* the same for the first create_wallet of an address only
C25_CreateWalletFresh ==
    [][ (last'.op = "create_wallet" /\ last'.who \notin DOMAIN wallets)
          => CreatesFresh(last'.who) ]_vars

C25_ReservedFundsLost ==
    /\ last.op = "create_wallet"
    /\ wallets[last.who].balance = 0
    /\ wallets[last.who].staking_balance = 0
    /\ last.who \in DOMAIN validators
    /\ validators[last.who] = FundAmount
    /\ Len(pending_transactions) = 0

====
